---------------------------- MODULE Spec2Model ----------------------------
(***************************************************************************)
(* Model of the Minesweeper knowledge base of                              *)
(* src/Week_2/1_Knowledge/Minesweeper/minesweeper.py: the classes Sentence *)
(* and MinesweeperAI.  Every public method of MinesweeperAI is one action; *)
(* add_knowledge, with its propagation loop, is computed as a whole by the *)
(* operator add_knowledge, statement by statement as the source runs it.   *)
(***************************************************************************)
EXTENDS Integers, Sequences, FiniteSets, TLC

(***************************************************************************)
(* Bounds of the model.                                                    *)
(***************************************************************************)
\* Spec: number of add_knowledge calls in a run, and largest count passed
MaxCalls == 2
MaxCount == 3
\* SpecDeep: the same for its longer runs with larger counts
MaxCallsDeep == 3
MaxCountDeep == 4
\* SpecAll: number of mutating calls (add_knowledge, mark_mine, mark_safe)
\* in a run, and largest count passed
MaxCallsAll == 2
MaxCountAll == 1
\* SpecSound: number of add_knowledge calls in a run, and largest number of
\* mines of the board
MaxCallsSound == 3
MaxMines == 2
\* passes of the propagation loop of one add_knowledge call that are run
\* before the call is reported as not having reached a fixpoint
MaxPasses == 8

\* the boards (height, width) a MinesweeperAI is constructed for, and those
\* of SpecAll
Grids == {<<1, 4>>, <<2, 3>>, <<3, 3>>}
GridsAll == {<<1, 4>>, <<2, 3>>}

VARIABLES
    height,      \* MinesweeperAI.height
    width,       \* MinesweeperAI.width
    moves_made,  \* MinesweeperAI.moves_made : set of cells
    mines,       \* MinesweeperAI.mines      : set of cells
    safes,       \* MinesweeperAI.safes      : set of cells
    knowledge,   \* MinesweeperAI.knowledge  : list of sentences
    board,       \* Minesweeper.mines: the ground-truth layout (SpecSound)
    calls,       \* number of mutating calls made so far
    budget,      \* number of mutating calls the run may make
    top_count,   \* largest count the run passes to add_knowledge
    last         \* the last call: its name, arguments, outcome and result

vars == <<height, width, moves_made, mines, safes, knowledge, board, calls,
          budget, top_count, last>>

\* Python's None, as a make_*_move result and as an absent argument
None == <<-9, -9>>

(***************************************************************************)
(* class Sentence                                                          *)
(***************************************************************************)
\* Sentence.__init__
Sentence(cells, count) == [cells |-> cells, count |-> count]

\* known_mines with the comparison of line 110 written as >=
known_mines_ge(s) ==
    IF Cardinality(s.cells) >= s.count /\ s.count > 0 THEN s.cells ELSE {}

\* Sentence.known_mines
known_mines(s) ==
    IF Cardinality(s.cells) = s.count /\ s.count > 0 THEN s.cells ELSE {}

\* Sentence.known_safes
known_safes(s) ==
    IF s.count = 0 /\ Cardinality(s.cells) > 0 THEN s.cells ELSE {}

\* Sentence.mark_mine without line 138: the count is kept
Sentence_mark_mine_count_kept(s, cell) ==
    IF cell \in s.cells
    THEN [cells |-> s.cells \ {cell}, count |-> s.count]
    ELSE s

\* Sentence.mark_mine
Sentence_mark_mine(s, cell) ==
    IF cell \in s.cells
    THEN [cells |-> s.cells \ {cell}, count |-> s.count - 1]
    ELSE s

\* Sentence.mark_safe lowering the count whether or not the cell is in the
\* sentence
Sentence_mark_safe_count_lowered(s, cell) ==
    [cells |-> s.cells \ {cell}, count |-> s.count - 1]

\* Sentence.mark_safe
Sentence_mark_safe(s, cell) ==
    IF cell \in s.cells
    THEN [cells |-> s.cells \ {cell}, count |-> s.count]
    ELSE s

(***************************************************************************)
(* class MinesweeperAI.  An object is the record self with the fields      *)
(* moves_made, mines, safes, knowledge of the source and four history      *)
(* fields, kept for the claims that speak of what happens during a call    *)
(* (no operator of the program reads them): held, every sentence value     *)
(* some entry of knowledge has had since the running call began;           *)
(* derivable, for every two entries that were in knowledge together since  *)
(* then, one's cells a strict subset of the other's, their difference;     *)
(* appended, the sentences line 261 has appended in the running call; and  *)
(* steps, for each pass of the running call that reached line 342, the     *)
(* knowledge its derivation step read and the new_knowledge it built.      *)
(***************************************************************************)
Range(seq) == {seq[i] : i \in DOMAIN seq}

\* `x in list` of Python, by Sentence.__eq__ (equal cells and equal count)
InList(s, seq) == \E i \in DOMAIN seq : seq[i] = s

\* the differences (lines 328-333) of the pairs of entries of seq that
\* pass the test of line 326
Derivable(seq) ==
    {Sentence(seq[p[1]].cells \ seq[p[2]].cells,
              seq[p[1]].count - seq[p[2]].count) :
        p \in {q \in (DOMAIN seq) \X (DOMAIN seq) :
                  /\ seq[q[2]].cells \subseteq seq[q[1]].cells
                  /\ seq[q[2]].cells # seq[q[1]].cells}}

Hold(self) ==
    [self EXCEPT !.held = @ \cup Range(self.knowledge),
                 !.derivable = @ \cup Derivable(self.knowledge)]

\* mark_mine with line 184 assigning the set instead of adding to it
mark_mine_assign(self, cell) ==
    Hold([self EXCEPT
        !.mines = {cell},
        !.knowledge = [i \in DOMAIN @ |-> Sentence_mark_mine(@[i], cell)]])

\* mark_mine without line 184: the sentences are narrowed, the cell is not
\* recorded
mark_mine_unrecorded(self, cell) ==
    Hold([self EXCEPT
        !.knowledge = [i \in DOMAIN @ |-> Sentence_mark_mine(@[i], cell)]])

\* mark_mine without the loop of lines 186-188: the sentences are kept
mark_mine_sentences_kept(self, cell) ==
    Hold([self EXCEPT !.mines = @ \cup {cell}])

\* MinesweeperAI.mark_mine
mark_mine(self, cell) ==
    Hold([self EXCEPT
        !.mines = @ \cup {cell},
        !.knowledge = [i \in DOMAIN @ |-> Sentence_mark_mine(@[i], cell)]])

\* MinesweeperAI.mark_safe
mark_safe(self, cell) ==
    Hold([self EXCEPT
        !.safes = @ \cup {cell},
        !.knowledge = [i \in DOMAIN @ |-> Sentence_mark_safe(@[i], cell)]])


\* the loop of lines 271-277:
\*   for mine in sentence.known_mines(): if mine not in self.mines: ...
RECURSIVE mark_new_mines(_, _)
mark_new_mines(r, todo) ==
    IF todo = {} THEN r
    ELSE LET mine == CHOOSE c \in todo : TRUE IN
         IF mine \notin r.self.mines
         THEN mark_new_mines([self |-> mark_mine(r.self, mine), updated |-> TRUE],
                             todo \ {mine})
         ELSE mark_new_mines(r, todo \ {mine})

\* the loop of lines 279-285:
\*   for safe in sentence.known_safes(): if safe not in self.safes: ...
RECURSIVE mark_new_safes(_, _)
mark_new_safes(r, todo) ==
    IF todo = {} THEN r
    ELSE LET safe == CHOOSE c \in todo : TRUE IN
         IF safe \notin r.self.safes
         THEN mark_new_safes([self |-> mark_safe(r.self, safe), updated |-> TRUE],
                             todo \ {safe})
         ELSE mark_new_safes(r, todo \ {safe})

\* the loop of lines 302-304: for cell in set(sentence.cells): self.mark_mine(cell)
RECURSIVE mark_all_mines(_, _)
mark_all_mines(self, todo) ==
    IF todo = {} THEN self
    ELSE LET cell == CHOOSE c \in todo : TRUE IN
         mark_all_mines(mark_mine(self, cell), todo \ {cell})

\* the loop of lines 312-314: for cell in set(sentence.cells): self.mark_safe(cell)
RECURSIVE mark_all_safes(_, _)
mark_all_safes(self, todo) ==
    IF todo = {} THEN self
    ELSE LET cell == CHOOSE c \in todo : TRUE IN
         mark_all_safes(mark_safe(self, cell), todo \ {cell})

\* list.remove(x): drops the first entry equal to x (by Sentence.__eq__)
list_remove(seq, x) ==
    LET first == CHOOSE i \in DOMAIN seq :
                     seq[i] = x /\ \A j \in 1..(i - 1) : seq[j] # x
    IN [k \in 1..(Len(seq) - 1) |-> IF k < first THEN seq[k] ELSE seq[k + 1]]

\* lines 287-317 without the test of line 289: an empty sentence is removed
\* whatever its count, and nothing is raised
resolve_sentence_swallow(r, i) ==
    LET self == r.self
        sentence == self.knowledge[i]
    IN  IF Cardinality(sentence.cells) = 0
        THEN [self |-> [self EXCEPT !.knowledge = list_remove(@, sentence)],
              updated |-> TRUE, raised |-> FALSE, next |-> i]
        ELSE IF Cardinality(sentence.cells) = sentence.count
        THEN [self |-> mark_all_mines(self, sentence.cells),
              updated |-> TRUE, raised |-> FALSE, next |-> i + 1]
        ELSE IF sentence.count = 0
        THEN [self |-> mark_all_safes(self, sentence.cells),
              updated |-> TRUE, raised |-> FALSE, next |-> i + 1]
        ELSE [self |-> self, updated |-> r.updated, raised |-> FALSE, next |-> i + 1]

\* lines 287-317, for the sentence at position i of self.knowledge, after
\* the two loops over its known mines and known safes.  The result says
\* where the copy self.knowledge[:] continues: removing an entry at or
\* before position i moves the next sentence of the copy to position i.
resolve_sentence(r, i) ==
    LET self == r.self
        sentence == self.knowledge[i]
    IN  IF Cardinality(sentence.cells) = 0
        THEN IF sentence.count = 0
             THEN [self |-> [self EXCEPT !.knowledge = list_remove(@, sentence)],
                   updated |-> TRUE, raised |-> FALSE, next |-> i]
             ELSE [self |-> self, updated |-> r.updated, raised |-> TRUE, next |-> i]
        ELSE IF Cardinality(sentence.cells) = sentence.count
        THEN [self |-> mark_all_mines(self, sentence.cells),
              updated |-> TRUE, raised |-> FALSE, next |-> i + 1]
        ELSE IF sentence.count = 0
        THEN [self |-> mark_all_safes(self, sentence.cells),
              updated |-> TRUE, raised |-> FALSE, next |-> i + 1]
        ELSE [self |-> self, updated |-> r.updated, raised |-> FALSE, next |-> i + 1]

\* lines 279-285 for the sentence at position i: the loop over its known
\* safes, computed after the loop over its known mines
mark_known_safes(r, i) ==
    mark_new_safes(r, known_safes(r.self.knowledge[i]))

\* lines 269-317: for sentence in self.knowledge[:], from position i on.
\* next_sentence takes the result of lines 271-317 for one sentence.
RECURSIVE sentence_loop(_, _)
next_sentence(r) ==
    IF r.raised
    THEN [self |-> r.self, updated |-> r.updated, raised |-> TRUE]
    ELSE sentence_loop([self |-> r.self, updated |-> r.updated], r.next)

sentence_loop(r, i) ==
    IF i > Len(r.self.knowledge)
    THEN [self |-> r.self, updated |-> r.updated, raised |-> FALSE]
    ELSE next_sentence(
             resolve_sentence(
                 mark_known_safes(
                     mark_new_mines(r, known_mines(r.self.knowledge[i])), i), i))

\* lines 324-339 with the test of line 335 written
\* `new_sentence not in self.knowledge and new_sentence in new_knowledge`
RECURSIVE comparative_loop_in_new(_, _, _, _)
comparative_loop_in_new(kn, i, j, acc) ==
    IF j > Len(kn) THEN acc
    ELSE LET sentence == kn[i]
             comparative_sentence == kn[j]
             new_sentence ==
                 Sentence(sentence.cells \ comparative_sentence.cells,
                          sentence.count - comparative_sentence.count)
         IN  IF /\ comparative_sentence.cells \subseteq sentence.cells
                /\ comparative_sentence.cells # sentence.cells
                /\ ~InList(new_sentence, kn)
                /\ InList(new_sentence, acc)
             THEN comparative_loop_in_new(kn, i, j + 1, Append(acc, new_sentence))
             ELSE comparative_loop_in_new(kn, i, j + 1, acc)

\* lines 324-339 with the test of line 326 written `<=`
RECURSIVE comparative_loop_subseteq(_, _, _, _)
comparative_loop_subseteq(kn, i, j, acc) ==
    IF j > Len(kn) THEN acc
    ELSE LET sentence == kn[i]
             comparative_sentence == kn[j]
             new_sentence ==
                 Sentence(sentence.cells \ comparative_sentence.cells,
                          sentence.count - comparative_sentence.count)
         IN  IF /\ comparative_sentence.cells \subseteq sentence.cells
                /\ ~InList(new_sentence, kn)
                /\ ~InList(new_sentence, acc)
             THEN comparative_loop_subseteq(kn, i, j + 1, Append(acc, new_sentence))
             ELSE comparative_loop_subseteq(kn, i, j + 1, acc)

\* lines 324-339: for comparative_sentence in self.knowledge, for the
\* sentence at position i; acc is new_knowledge so far
RECURSIVE comparative_loop(_, _, _, _)
comparative_loop(kn, i, j, acc) ==
    IF j > Len(kn) THEN acc
    ELSE LET sentence == kn[i]
             comparative_sentence == kn[j]
             new_sentence ==
                 Sentence(sentence.cells \ comparative_sentence.cells,
                          sentence.count - comparative_sentence.count)
         IN  IF /\ comparative_sentence.cells \subseteq sentence.cells
                /\ comparative_sentence.cells # sentence.cells
                /\ ~InList(new_sentence, kn)
                /\ ~InList(new_sentence, acc)
             THEN comparative_loop(kn, i, j + 1, Append(acc, new_sentence))
             ELSE comparative_loop(kn, i, j + 1, acc)

\* lines 320-339: new_knowledge, the sentences derived from the pairs
\* (sentence, comparative_sentence) of self.knowledge in the order of the
\* two loops
RECURSIVE new_knowledge(_, _, _)
new_knowledge(kn, i, acc) ==
    IF i > Len(kn) \/ Len(acc) < 0 THEN acc
    ELSE new_knowledge(kn, i + 1, comparative_loop(kn, i, 1, acc))

\* line 342: self.knowledge.extend(new_knowledge)
extend_knowledge(self, derived) ==
    Hold([self EXCEPT
        !.knowledge = @ \o derived,
        !.steps = @ \cup {[knowledge |-> self.knowledge, new |-> derived]}])

\* lines 265-342 with the loop body run once: no `while updated`
end_pass_once(r, derived, passes) ==
    [self |-> extend_knowledge(r.self, derived), outcome |-> "ok",
     passes |-> passes + 1]

\* lines 265-342: while updated.  passes counts the passes already run;
\* derive takes the result of lines 269-317 of a pass, end_pass also the
\* new_knowledge of the pass.
RECURSIVE propagate(_, _)
end_pass(r, derived, passes) ==
    IF r.updated \/ derived # <<>>
    THEN propagate(extend_knowledge(r.self, derived), passes + 1)
    ELSE [self |-> extend_knowledge(r.self, derived), outcome |-> "ok",
          passes |-> passes + 1]

derive(r, passes) ==
    IF r.raised
    THEN [self |-> r.self, outcome |-> "ValueError", passes |-> passes + 1]
    ELSE end_pass(r, new_knowledge(r.self.knowledge, 1, <<>>), passes)

propagate(self, passes) ==
    IF passes >= MaxPasses
    THEN [self |-> self, outcome |-> "no fixpoint", passes |-> passes]
    ELSE derive(sentence_loop([self |-> self, updated |-> FALSE], 1), passes)

\* lines 229-243: the cells around cell that are on the board
surrounding_cells(self, cell) ==
    {c \in ((cell[1] - 1)..(cell[1] + 1)) \X ((cell[2] - 1)..(cell[2] + 1)) :
        /\ c # cell
        /\ 0 <= c[1] /\ c[1] < self.height
        /\ 0 <= c[2] /\ c[2] < self.width}

\* lines 246-252
unknown_cells(self, cell) ==
    {c \in surrounding_cells(self, cell) :
        c \notin self.moves_made /\ c \notin self.mines /\ c \notin self.safes}

\* adjusted_count without line 254: the count as it was passed
adjusted_count_as_passed(self, cell, count) == count

\* lines 248-254
adjusted_count(self, cell, count) ==
    count - Cardinality({c \in surrounding_cells(self, cell) :
                            ~(c \notin self.moves_made /\ c \notin self.mines
                              /\ c \notin self.safes)
                            /\ c \in self.mines})

\* lines 256-261
append_sentence(self, cell, count) ==
    IF unknown_cells(self, cell) # {}
    THEN Hold([self EXCEPT
                 !.knowledge =
                     Append(@, Sentence(unknown_cells(self, cell),
                                        adjusted_count(self, cell, count))),
                 !.appended =
                     Append(@, Sentence(unknown_cells(self, cell),
                                        adjusted_count(self, cell, count)))])
    ELSE self

\* MinesweeperAI.add_knowledge
add_knowledge(self, cell, count) ==
    LET moved == Hold([self EXCEPT !.moves_made = @ \cup {cell}, !.held = {},
                                      !.derivable = {}, !.appended = <<>>,
                                      !.steps = {}])
        marked == mark_safe(moved, cell)
    IN  propagate(append_sentence(marked, cell, count), 0)

\* safe_moves of line 356 without the subtraction of moves_made
safe_moves_made_kept(self) == self.safes

\* MinesweeperAI.make_safe_move: the cells random.choice may return
safe_moves(self) == self.safes \ self.moves_made

\* possible_moves with the test of line 382 on moves_made only
possible_moves_mines_kept(self) ==
    {move \in (0..(self.height - 1)) \X (0..(self.width - 1)) :
        ~(move \in self.moves_made)}

\* MinesweeperAI.make_random_move: the cells random.choice may return
possible_moves(self) ==
    {move \in (0..(self.height - 1)) \X (0..(self.width - 1)) :
        ~(move \in self.moves_made \/ move \in self.mines)}

\* Minesweeper.nearby_mines, for the layout board of an h x w game
nearby_mines(board_mines, h, w, cell) ==
    Cardinality({c \in ((cell[1] - 1)..(cell[1] + 1)) \X ((cell[2] - 1)..(cell[2] + 1)) :
        /\ c # cell
        /\ 0 <= c[1] /\ c[1] < h
        /\ 0 <= c[2] /\ c[2] < w
        /\ c \in board_mines})

(***************************************************************************)
(* The state machine.                                                      *)
(***************************************************************************)
\* the MinesweeperAI object held by the variables
Self == [height |-> height, width |-> width, moves_made |-> moves_made,
         mines |-> mines, safes |-> safes, knowledge |-> knowledge, held |-> {},
         derivable |-> {}, appended |-> <<>>, steps |-> {}]

\* the cells of the board
BoardCells == (0..(height - 1)) \X (0..(width - 1))

\* the cells a caller passes: those of the board, and one above the first
\* row and one right of the last column
CallCells == BoardCells \cup {<<-1, 0>>, <<height - 1, width>>}

Call(op, cell, count, outcome, ret, held, derivable, appended, steps, passes) ==
    [op |-> op, cell |-> cell, count |-> count, outcome |-> outcome,
     ret |-> ret, held |-> held, derivable |-> derivable,
     appended |-> appended, steps |-> steps, passes |-> passes]

\* a call can be made: the bound on calls is not reached and the program is
\* not inside a propagation loop that has not ended
CanCall == calls < budget /\ last.outcome # "no fixpoint"

\* MinesweeperAI.__init__
NewAI ==
    /\ moves_made = {}
    /\ mines = {}
    /\ safes = {}
    /\ knowledge = <<>>
    /\ calls = 0
    /\ last = Call("__init__", None, 0, "ok", None, {}, {}, <<>>, {}, 0)

\* an AI for one of the boards
Init ==
    /\ \E g \in Grids : height = g[1] /\ width = g[2]
    /\ budget = MaxCalls
    /\ top_count = MaxCount
    /\ board = {}
    /\ NewAI

InitDeep ==
    /\ \E g \in Grids : height = g[1] /\ width = g[2]
    /\ budget = MaxCallsDeep
    /\ top_count = MaxCountDeep
    /\ board = {}
    /\ NewAI

InitAll ==
    /\ \E g \in GridsAll : height = g[1] /\ width = g[2]
    /\ budget = MaxCallsAll
    /\ top_count = MaxCountAll
    /\ board = {}
    /\ NewAI

\* a call add_knowledge(cell, count) that ended as res says
Observe(res, cell, count) ==
    /\ moves_made' = res.self.moves_made
    /\ mines' = res.self.mines
    /\ safes' = res.self.safes
    /\ knowledge' = res.self.knowledge
    /\ last' = Call("add_knowledge", cell, count, res.outcome, None,
                    res.self.held, res.self.derivable, res.self.appended,
                    res.self.steps, res.passes)
    /\ calls' = calls + 1
    /\ UNCHANGED <<height, width, board, budget, top_count>>

\* ai.add_knowledge(cell, count), any cell and any count
AddKnowledge ==
    /\ CanCall
    /\ \E cell \in CallCells, count \in 0..top_count :
        Observe(add_knowledge(Self, cell, count), cell, count)

\* a call op(cell) of mark_mine or mark_safe that left the object as res
Marked(res, op, cell) ==
    /\ mines' = res.mines
    /\ safes' = res.safes
    /\ moves_made' = res.moves_made
    /\ knowledge' = res.knowledge
    /\ last' = Call(op, cell, 0, "ok", None, {}, {}, <<>>, {}, 0)

\* ai.mark_mine(cell), called from outside
MarkMine ==
    /\ CanCall
    /\ \E cell \in CallCells : Marked(mark_mine(Self, cell), "mark_mine", cell)
    /\ calls' = calls + 1
    /\ UNCHANGED <<height, width, board, budget, top_count>>

\* ai.mark_safe(cell), called from outside
MarkSafe ==
    /\ CanCall
    /\ \E cell \in CallCells : Marked(mark_safe(Self, cell), "mark_safe", cell)
    /\ calls' = calls + 1
    /\ UNCHANGED <<height, width, board, budget, top_count>>

\* make_safe_move recording the move it returns in moves_made
MakeSafeMovePlayed ==
    /\ last.outcome # "no fixpoint"
    /\ \E ret \in (IF safe_moves(Self) = {} THEN {None} ELSE safe_moves(Self)) :
        /\ last' = Call("make_safe_move", None, 0, "ok", ret, {}, {}, <<>>, {}, 0)
        /\ moves_made' = IF ret = None THEN moves_made ELSE moves_made \cup {ret}
    /\ UNCHANGED <<height, width, mines, safes, knowledge, board, calls,
                   budget, top_count>>

\* ai.make_safe_move()
MakeSafeMove ==
    /\ last.outcome # "no fixpoint"
    /\ \E ret \in (IF safe_moves(Self) = {} THEN {None} ELSE safe_moves(Self)) :
        last' = Call("make_safe_move", None, 0, "ok", ret, {}, {}, <<>>, {}, 0)
    /\ UNCHANGED <<height, width, moves_made, mines, safes, knowledge, board, calls,
                   budget, top_count>>

\* ai.make_random_move()
MakeRandomMove ==
    /\ last.outcome # "no fixpoint"
    /\ \E ret \in (IF possible_moves(Self) = {} THEN {None} ELSE possible_moves(Self)) :
        last' = Call("make_random_move", None, 0, "ok", ret, {}, {}, <<>>, {}, 0)
    /\ UNCHANGED <<height, width, moves_made, mines, safes, knowledge, board, calls,
                   budget, top_count>>

\* observations, any cell and any count
Next == AddKnowledge

Spec == Init /\ [][Next]_vars

\* the same, in longer runs with larger counts
SpecDeep == InitDeep /\ [][Next]_vars

\* every public method of MinesweeperAI, in any order
NextAll == AddKnowledge \/ MarkMine \/ MarkSafe \/ MakeSafeMove \/ MakeRandomMove

SpecAll == InitAll /\ [][NextAll]_vars

\* a game: a board with at most MaxMines mines, and an AI for it
InitSound ==
    /\ \E g \in Grids :
        /\ height = g[1]
        /\ width = g[2]
        /\ board \in {b \in SUBSET ((0..(g[1] - 1)) \X (0..(g[2] - 1))) :
                         Cardinality(b) <= MaxMines}
    /\ budget = MaxCallsSound
    /\ top_count = 8
    /\ NewAI

\* ai.add_knowledge(cell, game.nearby_mines(cell)) for a cell that is not a
\* mine, as runner.py calls it after a move that does not lose the game
ObserveCell ==
    /\ CanCall
    /\ \E cell \in BoardCells \ board :
        Observe(add_knowledge(Self, cell,
                              nearby_mines(board, height, width, cell)),
                cell, nearby_mines(board, height, width, cell))

NextSound == ObserveCell

SpecSound == InitSound /\ [][NextSound]_vars

(***************************************************************************)
(* The claims.                                                             *)
(***************************************************************************)
\* the step just taken was a call of add_knowledge
Observed == last.op = "add_knowledge"

\* the step just taken was a call of add_knowledge that returned
Returned == last.op = "add_knowledge" /\ last.outcome = "ok"

\* C1 (soundness): when every observed cell is no mine of the board and
\* every count is the board's true count, no cell is both in mines and in
\* safes.  Checked under SpecSound.
C1_Soundness == mines \cap safes = {}

\* a state of a sound game in which the AI has inferred a mine and a safe
\* cell it has not probed
C1_Witness ==
    /\ Observed
    /\ board # {}
    /\ mines # {}
    /\ safes \ moves_made # {}

\* C2 (monotonicity): every call of mark_mine, mark_safe, add_knowledge,
\* make_safe_move and make_random_move leaves each cell of moves_made, mines
\* and safes in its set, also when add_knowledge raises.  Checked under
\* SpecAll.
C2_Monotonic ==
    [][/\ moves_made \subseteq moves_made'
       /\ mines \subseteq mines'
       /\ safes \subseteq safes']_vars

\* add_knowledge has raised and left the three sets non-empty
C2_Witness ==
    /\ Observed
    /\ last.outcome = "ValueError"
    /\ moves_made # {}
    /\ mines # {}
    /\ safes # {}

\* C3 (no duplicate statements): after add_knowledge returns, no two
\* entries of knowledge have equal cells and equal count.
C3_NoDuplicates ==
    Returned =>
        \A i, j \in DOMAIN knowledge : i # j => knowledge[i] # knowledge[j]

\* C4 (contradiction on observe): a call add_knowledge(cell, count) whose
\* count is smaller than the number of neighbours of cell already in mines
\* raises.
C4_NegativeCountRaises ==
    [][(/\ calls' = calls + 1
        /\ last'.op = "add_knowledge"
        /\ adjusted_count(Self, last'.cell, last'.count) < 0)
       => last'.outcome = "ValueError"]_vars

\* C5 (out of bounds): add_knowledge with a cell outside the board raises
\* and adds the cell neither to moves_made nor to safes.
C5_OutOfBoundsRejected ==
    (Observed /\ last.cell \notin BoardCells) =>
        /\ last.outcome = "ValueError"
        /\ last.cell \notin moves_made
        /\ last.cell \notin safes

\* C6 (empty-statement contradiction): a call of add_knowledge during which
\* some entry of knowledge has no cells and a nonzero count does not return
\* normally; in particular no such entry is left by a call that returns.
C6_EmptyNonzeroRaises ==
    (Observed /\ \E s \in last.held : s.cells = {} /\ s.count # 0)
        => last.outcome # "ok"

\* add_knowledge has raised ValueError on an entry with no cells and a
\* nonzero count
C6_Witness ==
    /\ Observed
    /\ last.outcome = "ValueError"
    /\ \E i \in DOMAIN knowledge :
        knowledge[i].cells = {} /\ knowledge[i].count # 0

\* C7 (negative derivation): a call of add_knowledge whose derivation step
\* meets entries A and B with B.cells a strict subset of A.cells and
\* A.count - B.count < 0 does not return normally.  The last pass of a call
\* that returns runs the derivation step over the knowledge it returns with.
C7_NegativeDerivationRaises ==
    Returned =>
        ~ \E i, j \in DOMAIN knowledge :
            /\ knowledge[j].cells \subseteq knowledge[i].cells
            /\ knowledge[j].cells # knowledge[i].cells
            /\ knowledge[i].count - knowledge[j].count < 0

\* C8 (termination): every call of add_knowledge ends; its loop reaches a
\* pass that changes nothing, or raises.  Checked under SpecDeep.
C8_Terminates == last.outcome # "no fixpoint"

\* C9 (fixpoint on return): when add_knowledge returns, no entry of
\* knowledge has an empty cell set, count 0 or as many cells as its count,
\* every sentence derived from two entries is an entry, and one more pass
\* of the loop changes nothing.
C9_Fixpoint ==
    Returned =>
        /\ \A i \in DOMAIN knowledge :
            /\ knowledge[i].cells # {}
            /\ knowledge[i].count # 0
            /\ Cardinality(knowledge[i].cells) # knowledge[i].count
        /\ \A i, j \in DOMAIN knowledge :
            (/\ knowledge[j].cells \subseteq knowledge[i].cells
             /\ knowledge[j].cells # knowledge[i].cells)
            => InList(Sentence(knowledge[i].cells \ knowledge[j].cells,
                               knowledge[i].count - knowledge[j].count),
                      knowledge)
        /\ sentence_loop([self |-> Self, updated |-> FALSE], 1)
               = [self |-> Self, updated |-> FALSE, raised |-> FALSE]
        /\ new_knowledge(knowledge, 1, <<>>) = <<>>

\* add_knowledge has returned after a pass that changed the knowledge and a
\* pass that did not, with two entries of which one's cells are a strict
\* subset of the other's
C9_Witness ==
    /\ Returned
    /\ last.passes >= 2
    /\ \E i, j \in DOMAIN knowledge :
        /\ knowledge[j].cells \subseteq knowledge[i].cells
        /\ knowledge[j].cells # knowledge[i].cells

\* C10 (zero-count rule): when add_knowledge returns, every cell of every
\* sentence that was an entry of knowledge during the call with count 0 and
\* a non-empty cell set is in safes.
C10_ZeroCountRule ==
    Returned =>
        \A s \in last.held :
            (s.count = 0 /\ s.cells # {}) => s.cells \subseteq safes

\* C11 (exact-count rule): when add_knowledge returns, every cell of every
\* sentence that was an entry of knowledge during the call with a positive
\* count equal to the number of its cells is in mines, and no entry of
\* knowledge is the empty sentence with count 0.
C11_ExactCountRule ==
    Returned =>
        /\ \A s \in last.held :
            (s.count > 0 /\ Cardinality(s.cells) = s.count)
                => s.cells \subseteq mines
        /\ ~InList(Sentence({}, 0), knowledge)

\* C11 as amended: the same for the sentences none of whose cells is in
\* safes when the call returns.
C11_ExactCountRuleUnlessSafe ==
    Returned =>
        /\ \A s \in last.held :
            (s.count > 0 /\ Cardinality(s.cells) = s.count
             /\ s.cells \cap safes = {})
                => s.cells \subseteq mines
        /\ ~InList(Sentence({}, 0), knowledge)

\* add_knowledge has returned after an entry of knowledge had two or more
\* cells and as many mines, none of the cells being in safes
C11_Witness ==
    /\ Returned
    /\ \E s \in last.held :
        /\ Cardinality(s.cells) >= 2
        /\ Cardinality(s.cells) = s.count
        /\ s.cells \cap safes = {}

\* C12 (subset derivation): when add_knowledge returns, for every two
\* sentences A and B that were entries of knowledge together during the
\* call, B.cells a strict subset of A.cells, the sentence
\* (A.cells - B.cells, A.count - B.count) has been an entry of knowledge
\* during the call; if its count is the number of its cells they are all in
\* mines, and if its count is 0 they are all in safes.
C12_SubsetDerivation ==
    Returned =>
        \A d \in last.derivable :
            /\ d \in last.held
            /\ d.count = Cardinality(d.cells) => d.cells \subseteq mines
            /\ d.count = 0 => d.cells \subseteq safes

\* C12 as amended, for observations of cells that are no mines of the board
\* with the board's true counts (SpecSound): when add_knowledge returns,
\* for every two sentences A and B that were entries of knowledge together
\* during the call, B.cells a strict subset of A.cells, the cells of
\* A.cells - B.cells are all in mines if A.count - B.count is their number
\* and all in safes if it is 0.
C12_SubsetDerivationActs ==
    Returned =>
        \A d \in last.derivable :
            /\ d.count = Cardinality(d.cells) => d.cells \subseteq mines
            /\ d.count = 0 => d.cells \subseteq safes

\* add_knowledge has returned from a call during which the difference of
\* one pair of entries, as many cells as mines, and that of another pair,
\* cells with no mine, were entries of knowledge
C12_Witness ==
    /\ Returned
    /\ \E d \in last.derivable \cap last.held : d.count = Cardinality(d.cells)
    /\ \E d \in last.derivable \cap last.held : d.count = 0

\* C13 (make_safe_move): a call of make_safe_move returns None exactly when
\* no cell of safes is outside moves_made, and otherwise a cell of safes
\* that is not in moves_made; in every state, every such cell is a result
\* make_safe_move may return.  Checked under SpecAll.
C13_SafeMoveResult ==
    /\ last.op = "make_safe_move" =>
        /\ last.ret = None <=> safes \ moves_made = {}
        /\ last.ret # None => last.ret \in safes /\ last.ret \notin moves_made
    /\ last.outcome # "no fixpoint" =>
        \A c \in safes \ moves_made : ENABLED (MakeSafeMove /\ last'.ret = c)

\* make_safe_move has returned one of several safe cells not yet played,
\* some moves having been made
C13_Witness ==
    /\ last.op = "make_safe_move"
    /\ last.ret # None
    /\ Cardinality(safes \ moves_made) >= 2
    /\ moves_made # {}

\* C14 (read-only queries): a call of make_safe_move or make_random_move,
\* whatever it returns, leaves moves_made, mines, safes and every entry of
\* knowledge as they were.  Checked under SpecAll.
C14_ReadOnlyQueries ==
    [][last'.op \in {"make_safe_move", "make_random_move"}
       => UNCHANGED <<moves_made, mines, safes, knowledge>>]_vars

\* a query has returned a cell in a state with sentences and known cells
C14_Witness ==
    /\ last.op \in {"make_safe_move", "make_random_move"}
    /\ last.ret # None
    /\ knowledge # <<>>
    /\ safes # {}
    /\ moves_made # {}

\* C15 (make_random_move): a call of make_random_move returns None exactly
\* when every cell of the board is in moves_made or in mines, and otherwise
\* a cell of the board that is in neither; in every state, every cell of
\* the board that is in neither set, those in safes included, is a result
\* make_random_move may return.  Checked under SpecAll.
C15_RandomMoveResult ==
    /\ last.op = "make_random_move" =>
        /\ last.ret = None <=> BoardCells \subseteq moves_made \cup mines
        /\ last.ret # None =>
            /\ last.ret \in BoardCells
            /\ last.ret \notin moves_made
            /\ last.ret \notin mines
    /\ last.outcome # "no fixpoint" =>
        \A c \in BoardCells \ (moves_made \cup mines) :
            ENABLED (MakeRandomMove /\ last'.ret = c)

\* make_random_move has returned a cell known to be safe, a mine being
\* known and a move made
C15_Witness ==
    /\ last.op = "make_random_move"
    /\ last.ret \in safes
    /\ mines # {}
    /\ moves_made # {}

\* C16 (ground-truth soundness): when every observed cell is no mine of the
\* board and every count is the board's true count, then between calls the
\* count of every entry of knowledge is the number of its cells that are
\* mines of the board, mines holds only mines of the board and safes none,
\* no cell make_safe_move may return is a mine of the board, and no call
\* has raised.  Checked under SpecSound.
C16_GroundTruth ==
    /\ \A i \in DOMAIN knowledge :
        /\ knowledge[i].count = Cardinality(knowledge[i].cells \cap board)
        /\ 0 <= knowledge[i].count
        /\ knowledge[i].count <= Cardinality(knowledge[i].cells)
    /\ mines \subseteq board
    /\ safes \cap board = {}
    /\ safe_moves(Self) \cap board = {}
    /\ last.outcome = "ok"

\* in a sound game add_knowledge has returned with a known mine, a safe
\* cell to play and an entry of knowledge some but not all of whose cells
\* are mines
C16_Witness ==
    /\ Returned
    /\ mines # {}
    /\ safe_moves(Self) # {}
    /\ \E i \in DOMAIN knowledge :
        /\ knowledge[i].count >= 1
        /\ knowledge[i].count < Cardinality(knowledge[i].cells)

\* C17 (new sentence): a call add_knowledge(cell, count) appends, before
\* its propagation loop, the sentence whose cells are the cells of the
\* board next to cell, cell excluded, that were in none of moves_made,
\* mines and safes, and whose count is count less the number of cells of
\* the board next to cell that were in mines; it appends that sentence if
\* it has a cell, and nothing otherwise.
C17_NewSentence ==
    [][(calls' = calls + 1 /\ last'.op = "add_knowledge") =>
        LET cell == last'.cell
            neighbours ==
                {c \in BoardCells :
                    /\ c # cell
                    /\ c[1] \in (cell[1] - 1)..(cell[1] + 1)
                    /\ c[2] \in (cell[2] - 1)..(cell[2] + 1)}
            unresolved == neighbours \ (moves_made \cup mines \cup safes)
            effective == last'.count - Cardinality(neighbours \cap mines)
        IN  last'.appended =
                IF unresolved # {} THEN <<Sentence(unresolved, effective)>>
                ELSE <<>>]_vars

\* add_knowledge has appended a sentence that leaves out a neighbour known
\* to be a mine, with the count lowered, and a neighbour known to be safe
C17_Witness ==
    /\ Observed
    /\ last.appended # <<>>
    /\ last.appended[1].count < last.count
    /\ \E c \in surrounding_cells(Self, last.cell) \ last.appended[1].cells :
        c \in safes \ mines

\* C18 (fact recording): a call mark_mine(c) with c in mines, or
\* mark_safe(c) with c in safes, leaves mines, safes, moves_made and every
\* entry of knowledge as they were; with c in neither set, mark_mine(c)
\* adds c to mines and takes c out of every entry that has it, lowering
\* that entry's count by 1, and mark_safe(c) adds c to safes and takes c
\* out of every entry that has it, keeping every count; nothing else
\* changes.  Checked under SpecAll.
C18_FactRecording ==
    [][(calls' = calls + 1 /\ last'.op \in {"mark_mine", "mark_safe"}) =>
        LET c == last'.cell IN
        /\ (last'.op = "mark_mine" /\ c \in mines)
            => UNCHANGED <<mines, safes, moves_made, knowledge>>
        /\ (last'.op = "mark_safe" /\ c \in safes)
            => UNCHANGED <<mines, safes, moves_made, knowledge>>
        /\ (last'.op = "mark_mine" /\ c \notin mines \cup safes) =>
            /\ mines' = mines \cup {c}
            /\ UNCHANGED <<safes, moves_made>>
            /\ knowledge' =
                   [i \in DOMAIN knowledge |->
                       IF c \in knowledge[i].cells
                       THEN Sentence(knowledge[i].cells \ {c},
                                     knowledge[i].count - 1)
                       ELSE knowledge[i]]
        /\ (last'.op = "mark_safe" /\ c \notin mines \cup safes) =>
            /\ safes' = safes \cup {c}
            /\ UNCHANGED <<mines, moves_made>>
            /\ knowledge' =
                   [i \in DOMAIN knowledge |->
                       IF c \in knowledge[i].cells
                       THEN Sentence(knowledge[i].cells \ {c},
                                     knowledge[i].count)
                       ELSE knowledge[i]]]_vars

\* mark_safe has been called, with sentences held, on a cell that had been
\* played, which add_knowledge had put in safes
C18_Witness ==
    /\ last.op = "mark_safe"
    /\ last.cell \in moves_made
    /\ knowledge # <<>>

\* C19 (no self-derivation): in every pass of every add_knowledge call,
\* each sentence of new_knowledge has a cell and is the difference of two
\* entries A and B of the knowledge the derivation step read, at different
\* positions, B.cells a strict subset of A.cells; its cells are a proper
\* subset of A.cells when B has a cell.  No sentence is derived from an
\* entry paired with itself or with an entry of the same cells, which
\* would have no cells.
C19_NoSelfDerivation ==
    Observed =>
        \A st \in last.steps : \A k \in DOMAIN st.new :
            /\ st.new[k].cells # {}
            /\ \E i, j \in DOMAIN st.knowledge :
                LET A == st.knowledge[i]
                    B == st.knowledge[j]
                IN  /\ i # j
                    /\ B.cells \subseteq A.cells
                    /\ B.cells # A.cells
                    /\ st.new[k] = Sentence(A.cells \ B.cells, A.count - B.count)
                    /\ B.cells # {} =>
                        /\ st.new[k].cells \subseteq A.cells
                        /\ st.new[k].cells # A.cells

\* a derivation step of add_knowledge, which pairs every entry with itself
\* too, has built a new sentence, and a later one has read it
C19_Witness ==
    /\ Observed
    /\ \E st, later \in last.steps :
        /\ st.new # <<>>
        /\ later.knowledge = st.knowledge \o st.new

\* C20 (resolved cells leave the sentences): after any sequence of calls of
\* mark_mine, mark_safe and add_knowledge that have ended, no entry of
\* knowledge has a cell that is in mines, in safes or in moves_made, and
\* every cell of moves_made is in safes.  Checked under SpecAll.
C20_ResolvedCellsLeave ==
    last.outcome # "no fixpoint" =>
        /\ \A i \in DOMAIN knowledge :
            knowledge[i].cells \cap (mines \cup safes \cup moves_made) = {}
        /\ moves_made \subseteq safes

\* mark_mine has been called from outside with a move made and a sentence
\* that still has cells
C20_Witness ==
    /\ last.op = "mark_mine"
    /\ moves_made # {}
    /\ \E i \in DOMAIN knowledge : knowledge[i].cells # {}

=============================================================================
